---------------------------- MODULE Spec2Model ----------------------------
(***************************************************************************)
(* A model of the pocket command-line client (cmd/pocket/main.go and its   *)
(* earlier variant): the authorization flow with its local callback        *)
(* listener and the credential file, the sorted listing, and the spotlight *)
(* export pipeline with its filename derivation.                           *)
(***************************************************************************)
EXTENDS Integers, Sequences, FiniteSets, TLC

(***************************************************************************)
(* Bounds of the model.                                                    *)
(***************************************************************************)
\* number of HTTP requests that reach the local listener in one process run
MaxRequests == 3
\* number of process runs that share one configuration directory
MaxRuns == 2
\* number of items in a response that commandList sorts
MaxListItems == 3
\* largest sort_id of an item
MaxSortId == 2
\* length of the freely chosen tail of a title
MaxTail == 3
\* number of items commandSpotlight retrieves
MaxExportItems == 2

VARIABLES
    \* ---- authorization flow (main, restoreAccessToken, obtainAccessToken)
    pc,            \* position of the main goroutine
    run,           \* index of the current process run
    authFile,      \* content of auth.json in the configuration directory
    accessToken,   \* main.go: accessToken in restoreAccessToken / main
    requestToken,  \* obtainAccessToken: requestToken ("none" until obtained)
    err,           \* the error value obtainAccessToken / saveJSONToFile returns
    closeErr,      \* saveJSONToFile: the deferred w.Close() returned an error
    listener,      \* ts: "none", "open" (accepting), "closed"
    handlers,      \* one entry per request served by the http.HandlerFunc
    sendq,         \* goroutines blocked in ch <- struct{}{}, in arrival order
    calls,         \* per-run counters of the collaborator calls made
    signalledBy,   \* handler whose send the main goroutine received (0: none)
    lastSaved,     \* the credential the last successful save wrote
    usedToken,     \* the token api.NewClient was given ("none" before)
    startFile,     \* what auth.json held when the current run started
    \* ---- the command main dispatches to
    command,       \* the command and its arguments, as docopt parsed them
    remote,        \* outcome of the command's remote call ("none" before it)
    exitCode,      \* status the command ended the process with (-1 before)
    reported,      \* the stream the remote call's error was written to
    \* ---- commandList
    lsPc,          \* position in commandList
    lsOptions,     \* the RetrieveOption built from the arguments
    lsFormat,      \* the --format argument
    rawList,       \* the items of the response, in the order of the response
    lsItems,       \* commandList: items
    lsOut,         \* the items printed so far
    \* ---- filename derivation of commandSpotlight
    nmPc,          \* the derivation step reached
    nmTitle,       \* item.Title(), a sequence of code points
    fname,         \* commandSpotlight: fname
    \* ---- commandSpotlight
    variant,       \* "title": cmd/pocket/main.go, "hash": the earlier variant
    exPc,          \* position in commandSpotlight
    exItems,       \* the retrieved items in the order the loop visits them
    idx,           \* index of the item the loop is at
    dirExists,     \* whether the index directory exists
    dir,           \* the files of the index directory
    indexerCalls,  \* invocations of /usr/bin/mdimport
    failure,       \* the first step that returned an error ("none" before)
    resetDone,     \* RemoveAll and MkdirAll have both succeeded
    priorDir       \* the files the index directory held when the run started

authVars == <<pc, run, authFile, accessToken, requestToken, err, listener,
              handlers, sendq, calls, signalledBy, lastSaved, usedToken,
              startFile, closeErr>>

cmdVars == <<command, remote, exitCode, reported>>
listVars == <<lsPc, lsOptions, lsFormat, rawList, lsItems, lsOut>>
nameVars == <<nmPc, nmTitle, fname>>
exportVars == <<variant, exPc, exItems, idx, dirExists, dir, indexerCalls,
                failure, resetDone, priorDir>>

\* what neither the steps up to the save nor the command's steps change
otherVars == <<closeErr, listVars, nameVars, exportVars>>
nonAuthVars == <<cmdVars, otherVars>>
nonListVars == <<authVars, cmdVars, nameVars, exportVars>>
nonNameVars == <<authVars, cmdVars, listVars, exportVars>>
nonExportVars == <<authVars, cmdVars, listVars, nameVars>>

vars == <<authVars, cmdVars, listVars, nameVars, exportVars>>

(***************************************************************************)
(* Values                                                                  *)
(***************************************************************************)
\* the credentials the remote service may hand out
AccessTokens == {"tokA", "tokB"}
\* auth.json: absent, not decodable, created but empty, cut short, JSON that
\* decodes and sets no field of the credential (such as {}), or a credential
NoFile  == "absent"
Garbage == "garbage"
Empty   == "empty"
Partial == "partial"
Blank   == "blank"
FileContents == {NoFile, Garbage, Empty, Partial, Blank} \cup AccessTokens

\* AccessToken of the zero auth.Authorization
ZeroToken == ""

Favicon  == "/favicon.ico"
Callback == "/"
Paths == {Favicon, Callback}

Requests == 1..MaxRequests
IdleHandler == [path |-> "none", st |-> "idle", resp |-> 0]
NoCalls == [reqTok |-> 0, accTok |-> 0, write |-> 0, srv |-> 0, load |-> 0,
            remote |-> 0]

\* the commands of the usage text with the arguments that decide their course:
\* <item-id> of archive (code points), runtime.GOOS for spotlight
\* "9223372036854775807", the largest int of a 64-bit build, as code points
MaxIntDigits == <<57, 50, 50, 51, 51, 55, 50, 48, 51, 54,
                  56, 53, 52, 55, 55, 53, 56, 48, 55>>
\* "12", "-1", "a", "9223372036854775808", "-9223372036854775808"
ItemIdArgs ==
    {<<49, 50>>, <<45, 49>>, <<97>>,
     [MaxIntDigits EXCEPT ![19] = 56],
     <<45>> \o [MaxIntDigits EXCEPT ![19] = 56]}
Platforms == {"darwin", "linux"}
NoCommand == [name |-> "none", itemId |-> <<>>, goos |-> "none"]
Invocations ==
    {[name |-> "list", itemId |-> <<>>, goos |-> "none"],
     [name |-> "add", itemId |-> <<>>, goos |-> "none"]}
    \cup {[name |-> "archive", itemId |-> a, goos |-> "none"] : a \in ItemIdArgs}
    \cup {[name |-> "spotlight", itemId |-> <<>>, goos |-> g] : g \in Platforms}

\* a <= b for digit strings of the same length
DigitsLeq(a, b) ==
    \/ a = b
    \/ \E i \in 1..Len(a) :
          /\ a[i] < b[i]
          /\ \A j \in 1..(i - 1) : a[j] = b[j]

\* strconv.Atoi returns no error: an optional sign, then decimal digits whose
\* value lies in the range of int (-2^63 .. 2^63 - 1; ErrRange otherwise)
AtoiOk(a) ==
    LET neg == a # <<>> /\ a[1] = 45
        digits == IF a # <<>> /\ a[1] \in {43, 45} THEN Tail(a) ELSE a
        nonZero == {i \in 1..Len(digits) : digits[i] # 48}
        sig == IF nonZero = {} THEN <<>>
               ELSE SubSeq(digits, CHOOSE i \in nonZero : \A j \in nonZero : i <= j,
                           Len(digits))
        limit == IF neg THEN [MaxIntDigits EXCEPT ![19] = 56] ELSE MaxIntDigits
    IN  /\ digits # <<>>
        /\ \A i \in 1..Len(digits) : digits[i] \in 48..57
        /\ \/ Len(sig) < Len(limit)
           \/ Len(sig) = Len(limit) /\ DigitsLeq(sig, limit)

\* commandSpotlight: no step has returned an error
NoFailure == [step |-> "none", at |-> 0]

\* a file that holds a credential the service issued
IsCredential(f) == f \in AccessTokens

\* loadJSONFromFile returns nil exactly when os.Open and Decode do: on any
\* file that is JSON for the value, whether it holds a credential or not
Loadable(f) == f \in AccessTokens \cup {Blank}

\* the AccessToken of the value Decode filled in: untouched fields stay zero
DecodedToken(f) == IF f \in AccessTokens THEN f ELSE ZeroToken

\* handlers that have been entered and have not returned
Outstanding == {h \in Requests : handlers[h].st \in {"running", "sending"}}

(***************************************************************************)
(* The parts of the program a specification does not exercise stay idle.   *)
(***************************************************************************)
IdleCommand ==
    /\ command = NoCommand
    /\ remote = "none"
    /\ exitCode = -1
    /\ reported = "none"

IdleAuth ==
    /\ IdleCommand
    /\ pc = "off"
    /\ run = 0
    /\ authFile = NoFile
    /\ accessToken = "none"
    /\ requestToken = "none"
    /\ err = FALSE
    /\ closeErr = FALSE
    /\ listener = "none"
    /\ handlers = [h \in Requests |-> IdleHandler]
    /\ sendq = <<>>
    /\ calls = NoCalls
    /\ signalledBy = 0
    /\ lastSaved = "none"
    /\ usedToken = "none"
    /\ startFile = NoFile

IdleList ==
    /\ lsPc = "off"
    /\ lsOptions = "none"
    /\ lsFormat = "none"
    /\ rawList = <<>>
    /\ lsItems = <<>>
    /\ lsOut = <<>>

IdleName ==
    /\ nmPc = "off"
    /\ nmTitle = <<>>
    /\ fname = <<>>

IdleExport ==
    /\ variant = "none"
    /\ exPc = "off"
    /\ exItems = <<>>
    /\ idx = 0
    /\ dirExists = FALSE
    /\ dir = {}
    /\ indexerCalls = 0
    /\ failure = NoFailure
    /\ resetDone = FALSE
    /\ priorDir = {}

(***************************************************************************)
(* The process start: main() up to restoreAccessToken's load.              *)
(***************************************************************************)
StartState(file, r, saved) ==
    /\ IdleCommand
    /\ pc = "load"
    /\ run = r
    /\ authFile = file
    /\ accessToken = "none"
    /\ requestToken = "none"
    /\ err = FALSE
    /\ closeErr = FALSE
    /\ listener = "none"
    /\ handlers = [h \in Requests |-> IdleHandler]
    /\ sendq = <<>>
    /\ calls = NoCalls
    /\ signalledBy = 0
    /\ lastSaved = saved
    /\ usedToken = "none"
    /\ startFile = file

InitAuth ==
    /\ \E f \in {NoFile, Garbage, Blank} : StartState(f, 1, "none")
    /\ IdleList /\ IdleName /\ IdleExport

\* restoreAccessToken: err := loadJSONFromFile(authFile, accessToken)
LoadFailsMutant ==
    /\ pc = "load"
    /\ pc' = "newServer"
    /\ calls' = [calls EXCEPT !.load = @ + 1]
    /\ UNCHANGED <<run, authFile, accessToken, requestToken, err, listener,
                   handlers, sendq, signalledBy, lastSaved, usedToken, startFile, nonAuthVars>>

LoadCredential ==
    /\ pc = "load"
    /\ IF Loadable(authFile)
         THEN /\ accessToken' = DecodedToken(authFile)
              /\ pc' = "command"
         ELSE /\ accessToken' = accessToken
              /\ pc' = "newServer"
    /\ calls' = [calls EXCEPT !.load = @ + 1]
    /\ UNCHANGED <<run, authFile, requestToken, err, listener,
                   handlers, sendq, signalledBy, lastSaved, usedToken, startFile, nonAuthVars>>

\* obtainAccessToken: ch := make(chan struct{}); ts := httptest.NewServer(...)
NewServer ==
    /\ pc = "newServer"
    /\ listener' = "open"
    /\ calls' = [calls EXCEPT !.srv = @ + 1]
    /\ pc' = "reqToken"
    /\ UNCHANGED <<run, authFile, accessToken, requestToken, err,
                   handlers, sendq, signalledBy, lastSaved, usedToken, startFile, nonAuthVars>>

\* requestToken, err := auth.ObtainRequestToken(...); if err != nil { return nil, err }
ReqTokenIgnoresErrorMutant ==
    /\ pc = "reqToken"
    /\ calls' = [calls EXCEPT !.reqTok = @ + 1]
    /\ \E ok \in BOOLEAN :
         /\ requestToken' = IF ok THEN "req" ELSE "none"
         /\ err' = ~ok
         /\ pc' = "wait"
    /\ UNCHANGED <<run, authFile, accessToken, listener,
                   handlers, sendq, signalledBy, lastSaved, usedToken, startFile, nonAuthVars>>

ObtainRequestToken ==
    /\ pc = "reqToken"
    /\ calls' = [calls EXCEPT !.reqTok = @ + 1]
    /\ \E ok \in BOOLEAN :
         IF ok
           THEN /\ requestToken' = "req"
                /\ err' = FALSE
                /\ pc' = "wait"
           ELSE /\ requestToken' = "none"
                /\ err' = TRUE
                /\ pc' = "close"
    /\ UNCHANGED <<run, authFile, accessToken, listener,
                   handlers, sendq, signalledBy, lastSaved, usedToken, startFile, nonAuthVars>>

\* <-ch : the receive completes with the first goroutine blocked in the send
WaitForCallback ==
    /\ pc = "wait"
    /\ sendq # <<>>
    /\ signalledBy' = Head(sendq)
    /\ sendq' = Tail(sendq)
    /\ handlers' = [handlers EXCEPT ![Head(sendq)].st = "done"]
    /\ pc' = "accToken"
    /\ UNCHANGED <<run, authFile, accessToken, requestToken, err, listener,
                   calls, lastSaved, usedToken, startFile, nonAuthVars>>

\* return auth.ObtainAccessToken(consumerKey, requestToken)
ObtainAccessToken ==
    /\ pc = "accToken"
    /\ calls' = [calls EXCEPT !.accTok = @ + 1]
    /\ \/ \E t \in AccessTokens :
            /\ accessToken' = t
            /\ err' = FALSE
       \/ /\ accessToken' = "none"
          /\ err' = TRUE
    /\ pc' = "close"
    /\ UNCHANGED <<run, authFile, requestToken, listener,
                   handlers, sendq, signalledBy, lastSaved, usedToken, startFile, nonAuthVars>>

\* defer ts.Close(), first half: the listener stops accepting
CloseListener ==
    /\ pc = "close"
    /\ listener' = "closed"
    /\ pc' = "closeWait"
    /\ UNCHANGED <<run, authFile, accessToken, requestToken, err,
                   handlers, sendq, calls, signalledBy, lastSaved, usedToken, startFile, nonAuthVars>>

\* defer ts.Close(), second half: block until all outstanding requests completed
CloseNoWaitMutant ==
    /\ pc = "closeWait"
    /\ pc' = "returned"
    /\ UNCHANGED <<run, authFile, accessToken, requestToken, err, listener,
                   handlers, sendq, calls, signalledBy, lastSaved, usedToken, startFile, nonAuthVars>>

CloseWait ==
    /\ pc = "closeWait"
    /\ Outstanding = {}
    /\ pc' = "returned"
    /\ UNCHANGED <<run, authFile, accessToken, requestToken, err, listener,
                   handlers, sendq, calls, signalledBy, lastSaved, usedToken, startFile, nonAuthVars>>

\* restoreAccessToken: if err != nil { return nil, err }  (main: panic(err))
AfterObtainRetriesMutant ==
    /\ pc = "returned"
    /\ pc' = IF err THEN "newServer" ELSE "saveCreate"
    /\ UNCHANGED <<run, authFile, accessToken, requestToken, err, listener,
                   handlers, sendq, calls, signalledBy, lastSaved, usedToken, startFile, nonAuthVars>>

AfterObtain ==
    /\ pc = "returned"
    /\ pc' = IF err THEN "panic" ELSE "saveCreate"
    /\ UNCHANGED <<run, authFile, accessToken, requestToken, err, listener,
                   handlers, sendq, calls, signalledBy, lastSaved, usedToken, startFile, nonAuthVars>>

\* saveJSONToFile: w, err := os.Create(path)
SaveCreate ==
    /\ pc = "saveCreate"
    /\ \/ /\ authFile' = Empty
          /\ calls' = [calls EXCEPT !.write = @ + 1]
          /\ err' = FALSE
          /\ pc' = "saveEncode"
       \/ /\ authFile' = authFile
          /\ calls' = calls
          /\ err' = TRUE
          /\ pc' = "panic"
    /\ UNCHANGED <<run, accessToken, requestToken, listener,
                   handlers, sendq, signalledBy, lastSaved, usedToken, startFile, nonAuthVars>>

\* saveJSONToFile: return json.NewEncoder(w).Encode(v)
SaveEncode ==
    /\ pc = "saveEncode"
    /\ \/ /\ authFile' = accessToken
          /\ lastSaved' = accessToken
          /\ err' = FALSE
       \/ /\ authFile' \in {Empty, Partial}
          /\ lastSaved' = lastSaved
          /\ err' = TRUE
    /\ pc' = "saveClose"
    /\ UNCHANGED <<run, accessToken, requestToken, listener,
                   handlers, sendq, calls, signalledBy, usedToken, startFile, nonAuthVars>>

\* saveJSONToFile: defer w.Close() runs after Encode returned; the error a
\* failing Close returns is dropped, the function returns what Encode
\* returned.  restoreAccessToken: if err != nil { return nil, err }
SaveClose ==
    /\ pc = "saveClose"
    /\ closeErr' \in BOOLEAN
    /\ pc' = IF err THEN "panic" ELSE "command"
    /\ UNCHANGED <<run, authFile, accessToken, requestToken, err, listener,
                   handlers, sendq, calls, signalledBy, lastSaved, usedToken,
                   startFile, cmdVars, listVars, nameVars, exportVars>>

\* main: client := api.NewClient(consumerKey, accessToken.AccessToken); the command
RunCommand ==
    /\ pc = "command"
    /\ usedToken' = accessToken
    /\ \E c \in Invocations :
         /\ command' = c
         /\ IF c.name = "spotlight" /\ c.goos # "darwin"
              THEN pc' = "failed" /\ exitCode' = 1
              ELSE pc' = "args" /\ exitCode' = exitCode
    /\ UNCHANGED <<run, authFile, accessToken, requestToken, err, listener,
                   handlers, sendq, calls, signalledBy, lastSaved, startFile,
                   remote, reported, otherVars>>

\* the command up to its remote call: commandArchive parses <item-id> first
CommandArgs ==
    /\ pc = "args"
    /\ IF command.name = "archive" /\ ~AtoiOk(command.itemId)
         THEN pc' = "failed" /\ exitCode' = 2
         ELSE pc' = "remote" /\ exitCode' = exitCode
    /\ UNCHANGED <<run, authFile, accessToken, requestToken, err, listener,
                   handlers, sendq, calls, signalledBy, lastSaved, usedToken,
                   startFile, command, remote, reported, otherVars>>

\* client.Retrieve (list, spotlight), client.Modify (archive), client.Add (add)
RemoteCall ==
    /\ pc = "remote"
    /\ calls' = [calls EXCEPT !.remote = @ + 1]
    /\ remote' \in {"ok", "err"}
    /\ pc' = "result"
    /\ UNCHANGED <<run, authFile, accessToken, requestToken, err, listener,
                   handlers, sendq, signalledBy, lastSaved, usedToken,
                   startFile, command, exitCode, reported, otherVars>>

\* commandList: if err != nil { panic(err) }; then sort and print (a panic
\* again when the template fails)
CommandList ==
    /\ pc = "result"
    /\ command.name = "list"
    /\ IF remote = "err"
         THEN pc' = "failed" /\ exitCode' = 2 /\ reported' = "stderr"
         ELSE /\ reported' = reported
              /\ \/ pc' = "done" /\ exitCode' = 0
                 \/ pc' = "failed" /\ exitCode' = 2
    /\ UNCHANGED <<run, authFile, accessToken, requestToken, err, listener,
                   handlers, sendq, calls, signalledBy, lastSaved, usedToken,
                   startFile, command, remote, otherVars>>

\* commandArchive: res, err := client.Modify(action); fmt.Println(res, err)
CommandArchive ==
    /\ pc = "result"
    /\ command.name = "archive"
    /\ reported' = IF remote = "err" THEN "stdout" ELSE reported
    /\ pc' = "done"
    /\ exitCode' = 0
    /\ UNCHANGED <<run, authFile, accessToken, requestToken, err, listener,
                   handlers, sendq, calls, signalledBy, lastSaved, usedToken,
                   startFile, command, remote, otherVars>>

\* commandAdd: if err != nil { fmt.Fprintln(os.Stderr, err); os.Exit(1) }
CommandAdd ==
    /\ pc = "result"
    /\ command.name = "add"
    /\ IF remote = "err"
         THEN pc' = "failed" /\ exitCode' = 1 /\ reported' = "stderr"
         ELSE pc' = "done" /\ exitCode' = 0 /\ reported' = reported
    /\ UNCHANGED <<run, authFile, accessToken, requestToken, err, listener,
                   handlers, sendq, calls, signalledBy, lastSaved, usedToken,
                   startFile, command, remote, otherVars>>

\* commandSpotlight: the Retrieve error is printed and the process exits with
\* 1; otherwise the export runs and ends with 0, or with 1 at a failed step
CommandSpotlight ==
    /\ pc = "result"
    /\ command.name = "spotlight"
    /\ IF remote = "err"
         THEN pc' = "failed" /\ exitCode' = 1 /\ reported' = "stderr"
         ELSE /\ reported' = reported
              /\ \/ pc' = "done" /\ exitCode' = 0
                 \/ pc' = "failed" /\ exitCode' = 1
    /\ UNCHANGED <<run, authFile, accessToken, requestToken, err, listener,
                   handlers, sendq, calls, signalledBy, lastSaved, usedToken,
                   startFile, command, remote, otherVars>>

(***************************************************************************)
(* The listener's side: requests and the http.HandlerFunc.                 *)
(***************************************************************************)
NextRequest == CHOOSE h \in Requests :
                  /\ handlers[h].st = "idle"
                  /\ \A g \in Requests : g < h => handlers[g].st # "idle"

\* a browser (or anything else) connects to ts.URL while the server accepts
RequestArrives ==
    /\ listener = "open"
    /\ pc \notin {"done", "panic", "killed", "failed"}
    /\ \E h \in Requests : handlers[h].st = "idle"
    /\ \E p \in Paths :
         handlers' = [handlers EXCEPT ![NextRequest] =
                         [path |-> p, st |-> "running", resp |-> 0]]
    /\ UNCHANGED <<pc, run, authFile, accessToken, requestToken, err, listener,
                   sendq, calls, signalledBy, lastSaved, usedToken, startFile, nonAuthVars>>

\* the handler body up to its return or to the channel send
HandleSignalsAlwaysMutant(h) ==
    /\ handlers[h].st = "running"
    /\ pc \notin {"done", "panic", "killed", "failed"}
    /\ handlers' = [handlers EXCEPT ![h].resp = 200, ![h].st = "sending"]
    /\ sendq' = Append(sendq, h)
    /\ UNCHANGED <<pc, run, authFile, accessToken, requestToken, err, listener,
                   calls, signalledBy, lastSaved, usedToken, startFile, nonAuthVars>>

Handle(h) ==
    /\ handlers[h].st = "running"
    /\ pc \notin {"done", "panic", "killed", "failed"}
    /\ IF handlers[h].path = Favicon
         THEN /\ handlers' = [handlers EXCEPT ![h].resp = 404, ![h].st = "done"]
              /\ sendq' = sendq
         ELSE /\ handlers' = [handlers EXCEPT ![h].resp = 200, ![h].st = "sending"]
              /\ sendq' = Append(sendq, h)
    /\ UNCHANGED <<pc, run, authFile, accessToken, requestToken, err, listener,
                   calls, signalledBy, lastSaved, usedToken, startFile, nonAuthVars>>

(***************************************************************************)
(* The environment: the process is terminated, and the tool is run again.  *)
(***************************************************************************)
Terminate ==
    /\ pc \notin {"done", "panic", "killed", "failed"}
    /\ pc' = "killed"
    /\ UNCHANGED <<run, authFile, accessToken, requestToken, err, listener,
                   handlers, sendq, calls, signalledBy, lastSaved, usedToken, startFile, nonAuthVars>>

Rerun ==
    /\ pc \in {"done", "panic", "killed", "failed"}
    /\ run < MaxRuns
    /\ pc' = "load"
    /\ run' = run + 1
    /\ accessToken' = "none"
    /\ requestToken' = "none"
    /\ err' = FALSE
    /\ closeErr' = FALSE
    /\ listener' = "none"
    /\ handlers' = [h \in Requests |-> IdleHandler]
    /\ sendq' = <<>>
    /\ calls' = NoCalls
    /\ signalledBy' = 0
    /\ usedToken' = "none"
    /\ startFile' = authFile
    /\ command' = NoCommand
    /\ remote' = "none"
    /\ exitCode' = -1
    /\ reported' = "none"
    /\ UNCHANGED <<authFile, lastSaved, listVars, nameVars, exportVars>>

NextAuth ==
    \/ LoadCredential
    \/ NewServer
    \/ ObtainRequestToken
    \/ WaitForCallback
    \/ ObtainAccessToken
    \/ CloseListener
    \/ CloseWait
    \/ AfterObtain
    \/ SaveCreate
    \/ SaveEncode
    \/ SaveClose
    \/ RunCommand
    \/ CommandArgs
    \/ RemoteCall
    \/ CommandList
    \/ CommandArchive
    \/ CommandAdd
    \/ CommandSpotlight
    \/ RequestArrives
    \/ \E h \in Requests : Handle(h)
    \/ Terminate
    \/ Rerun

(***************************************************************************)
(* Claims about the authorization flow                                     *)
(***************************************************************************)
\* the states of a run in which obtainAccessToken has returned to its caller
ObtainReturned ==
    /\ calls.srv > 0
    /\ pc \in {"returned", "saveCreate", "saveEncode", "saveClose",
               "command", "args", "remote", "result", "done", "panic",
               "failed"}

\* C1: obtain_access_token is called only after obtain_request_token has
\* succeeded in the same flow, and auth.json is changed only after both
\* exchange calls of the flow have succeeded.
C1_ExchangeOrder ==
    [][ /\ (calls'.accTok > calls.accTok) =>
              (requestToken = "req" /\ calls.reqTok = 1)
        /\ (authFile' # authFile) =>
              (/\ requestToken = "req"
               /\ calls.reqTok = 1
               /\ calls.accTok = 1
               /\ accessToken \in AccessTokens
               /\ pc \in {"saveCreate", "saveEncode"}) ]_vars

\* C1 witness: the access-token exchange failed and the flow ended with
\* auth.json untouched.
C1_Witness ==
    /\ pc = "panic"
    /\ calls.reqTok = 1
    /\ calls.accTok = 1
    /\ accessToken = "none"
    /\ calls.write = 0
    /\ authFile = startFile

\* the state part of C2: a favicon request is answered 404 and never reaches
\* the send; the one handler whose send was received served a non-favicon
\* request, and obtain_access_token comes only after it
C2_StateInv ==
    /\ \A h \in Requests :
          handlers[h].path = Favicon =>
             /\ handlers[h].st # "sending"
             /\ handlers[h].st = "done" => handlers[h].resp = 404
             /\ signalledBy # h
    /\ \A i \in 1..Len(sendq) : handlers[sendq[i]].path = Callback
    /\ {h \in Requests : handlers[h].path = Callback /\ handlers[h].st = "done"}
          = (IF signalledBy = 0 THEN {} ELSE {signalledBy})
    /\ (pc = "accToken" \/ calls.accTok > 0) =>
          /\ signalledBy \in Requests
          /\ handlers[signalledBy].path = Callback
          /\ handlers[signalledBy].resp = 200

\* C2: only a non-favicon request signals completion; favicon requests get
\* 404 and leave the flow waiting; the wait is left only by receiving the
\* signal of a non-favicon request (no timeout, no other way out), and only
\* then is obtain_access_token called.
C2_Signal ==
    /\ []C2_StateInv
    /\ [][ (pc = "wait" /\ pc' \notin {"wait", "killed"}) =>
              /\ pc' = "accToken"
              /\ signalledBy = 0
              /\ signalledBy' \in Requests
              /\ handlers[signalledBy'].path = Callback ]_vars

\* C2 witness: a favicon probe was answered 404, a later request signalled
\* completion and the flow is about to call obtain_access_token.
C2_Witness ==
    /\ pc = "accToken"
    /\ signalledBy = 2
    /\ handlers[1].path = Favicon
    /\ handlers[1].st = "done"
    /\ handlers[1].resp = 404

\* C3: once obtainAccessToken has returned, on any of its exit paths, the
\* listener is closed and no handler invocation is running or blocked.
C3_TornDown ==
    ObtainReturned => (listener = "closed" /\ Outstanding = {} /\ sendq = <<>>)

\* C3 witness: obtainAccessToken returned after a failed request-token call
\* although a request had been served by the listener.
C3_Witness ==
    /\ pc = "returned"
    /\ err
    /\ requestToken = "none"
    /\ \E h \in Requests : handlers[h].st = "done"

\* C4: a run that starts with a loadable credential makes no call of the
\* authorization flow, starts no listener, leaves auth.json as it is and uses
\* the token the earlier successful handshake saved.  (The calls are skipped
\* for every file the load accepts; the token is the saved one when the file
\* holds a credential.)
C4_NoFlowWhenLoadable ==
    /\ IsCredential(startFile) =>
          /\ startFile = lastSaved
          /\ calls.load = 1 => accessToken = lastSaved
          /\ usedToken # "none" => usedToken = lastSaved
    /\ Loadable(startFile) =>
       /\ calls.load = 1 => accessToken = DecodedToken(startFile)
       /\ calls.srv = 0
       /\ calls.reqTok = 0
       /\ calls.accTok = 0
       /\ calls.write = 0
       /\ listener = "none"
       /\ authFile = startFile
       /\ pc \notin {"newServer", "reqToken", "wait", "accToken", "close",
                     "closeWait", "returned", "saveCreate", "saveEncode",
                     "saveClose", "panic"}

\* C4 witness: a second run found the credential of the first and ran its
\* command with it.
C4_Witness ==
    /\ run = 2
    /\ IsCredential(startFile)
    /\ pc = "done"
    /\ usedToken = startFile

\* C11: at every step of the save, and after a termination between its steps,
\* a load of auth.json finds the complete content the run started with or the
\* complete new credential, never an empty or a half-written file.
C11_AtomicSave ==
    \/ authFile = startFile
    \/ /\ IsCredential(authFile)
       /\ authFile = accessToken

\* C12: a command whose remote call returned an error has written the error
\* to the error stream and ended the process with a non-zero status; none
\* ends with status 0 after a failed remote call.
C12_RemoteFailureFatal ==
    (pc \in {"done", "failed"} /\ remote = "err") =>
       /\ exitCode # 0
       /\ reported = "stderr"
       /\ pc = "failed"

\* the states of a run in which main has gone on to the requested command
CommandStarted == pc \in {"args", "remote", "result", "done", "failed"}

\* every step of the save went well: Create, Encode and Close returned nil
Persisted ==
    /\ calls.write = 1
    /\ ~err
    /\ ~closeErr
    /\ authFile = accessToken

C13_StateInv ==
    ~Loadable(startFile) =>
       /\ (CommandStarted \/ calls.remote > 0) =>
             /\ calls.accTok = 1
             /\ IsCredential(accessToken)
             /\ usedToken = accessToken
             /\ lastSaved = accessToken
             /\ Persisted
       /\ (calls.write > 0 /\ pc \notin {"saveEncode", "saveClose"} /\ ~Persisted) =>
             /\ ~CommandStarted
             /\ command = NoCommand
             /\ usedToken = "none"
             /\ calls.remote = 0
       /\ (pc = "closeWait" /\ calls.accTok = 1 /\ ~err) =>
             \/ Outstanding = {}
             \/ \E h \in Requests : handlers[h].st = "running"

\* C13: in a run that found no stored credential, once the handshake has
\* succeeded the flow goes on to the command (the shutdown of the listener
\* can return), the command is run in the same process with the token the
\* handshake obtained, and only after every step of the save, the Close
\* included, went well; after a save of which a step failed the command is
\* not run.
C13_FirstRunCommand ==
    /\ []C13_StateInv
    /\ [][ /\ (pc = "saveClose" /\ ~err /\ pc' \notin {"saveClose", "killed"}) =>
                 pc' = "command"
           /\ (pc = "command" /\ pc' \notin {"command", "killed"}) =>
                 (command' # NoCommand /\ usedToken' = accessToken)
           /\ (calls'.remote > calls.remote /\ ~Loadable(startFile)) =>
                 (Persisted /\ usedToken = accessToken /\ calls.remote = 0) ]_vars

\* the part of C13 that holds of the code: the command is run with the token
\* obtained, after Create and Encode returned nil and the credential is in
\* auth.json, and it is not run when Create or Encode failed
C13_ExceptCloseAndHang ==
    ~Loadable(startFile) =>
       /\ (CommandStarted \/ calls.remote > 0) =>
             /\ calls.accTok = 1
             /\ calls.write = 1
             /\ ~err
             /\ IsCredential(accessToken)
             /\ usedToken = accessToken
             /\ authFile = accessToken
             /\ lastSaved = accessToken
       /\ (err \/ authFile # accessToken) =>
             /\ ~CommandStarted
             /\ command = NoCommand
             /\ usedToken = "none"
             /\ calls.remote = 0

C18_StateInv ==
    /\ calls.srv <= 1
    /\ calls.reqTok <= 1
    /\ calls.accTok <= 1
    /\ calls.write <= 1
    /\ calls.accTok <= calls.reqTok
    /\ calls.reqTok <= calls.srv
    /\ (authFile # startFile /\ IsCredential(authFile)) =>
          /\ calls.write = 1
          /\ calls.accTok = 1
          /\ authFile = accessToken

\* C18: in a run the listener is created at most once, obtain_request_token
\* and obtain_access_token are each called at most once, with no further call
\* after a failure, and auth.json is written at most once, after the
\* successful obtain_access_token call and with the credential it returned.
C18_OneHandshake ==
    /\ []C18_StateInv
    /\ [][ /\ err =>
                 /\ calls'.srv <= calls.srv
                 /\ calls'.reqTok <= calls.reqTok
                 /\ calls'.accTok <= calls.accTok
                 /\ calls'.write <= calls.write
           /\ (calls'.accTok > calls.accTok /\ ~err') =>
                 IsCredential(accessToken')
           /\ (calls.accTok = 1 /\ run' = run) => accessToken' = accessToken
           /\ (calls'.write > calls.write) =>
                 /\ calls.write = 0
                 /\ calls.accTok = 1
                 /\ IsCredential(accessToken)
           /\ (authFile' # authFile /\ IsCredential(authFile')) =>
                 authFile' = accessToken ]_vars

\* C18 witness: a run made one handshake and wrote the credential it got.
C18_Witness ==
    /\ calls.srv = 1
    /\ calls.reqTok = 1
    /\ calls.accTok = 1
    /\ calls.write = 1
    /\ authFile = accessToken
    /\ authFile # startFile

\* C19: whatever requests reached the listener, the deferred shutdown of the
\* listener can return: when the main goroutine waits in ts.Close() no handler
\* stays blocked in its send on the channel, which nobody receives from any
\* more, so obtainAccessToken returns.
C19_ShutdownReturns ==
    pc = "closeWait" =>
       \/ Outstanding = {}
       \/ \E h \in Requests : handlers[h].st = "running"



(***************************************************************************)
(* commandList: retrieve, copy res.List into a slice, sort.Sort, print.    *)
(***************************************************************************)
FilterOptions == {"none", "domain", "search", "tag"}
\* --format: not given, a template that parses, one that does not (as "{{")
Formats == {"none", "parses", "unparsable"}

ListItemIds == 1..MaxListItems
SortIds == 1..MaxSortId

\* the bijections of 1..n
Bijections(n) ==
    {f \in [1..n -> 1..n] : \A i, j \in 1..n : f[i] = f[j] => i = j}

\* the orders in which the elements of s can be visited
Orderings(s) ==
    {[i \in 1..Len(s) |-> s[f[i]]] : f \in Bijections(Len(s))}

\* a response: items with pairwise different item ids (the keys of res.List)
RawResponses ==
    UNION {
      {r \in [1..n -> [id : ListItemIds, sortId : SortIds]] :
          \A i, j \in 1..n : r[i].id = r[j].id => i = j}
      : n \in 0..MaxListItems}

\* func (s bySortID) Less(i, j int) bool { return s[i].SortId < s[j].SortId }
LessDescendingMutant(a, b) == a.sortId > b.sortId

Less(a, b) == a.sortId < b.sortId

\* what sort.Sort guarantees of its result: no element is Less than one
\* before it
IsSorted(s) == \A i, j \in 1..Len(s) : i < j => ~Less(s[j], s[i])

\* sort.Sort(bySortID(items)): a sorted ordering of the slice; the sort is
\* not stable, elements that are not Less than each other come in any order
SortOutcomes(s) == {t \in Orderings(s) : IsSorted(t)}

InitList ==
    /\ lsPc = "retrieve"
    /\ lsOptions \in FilterOptions
    /\ lsFormat \in Formats
    /\ rawList = <<>>
    /\ lsItems = <<>>
    /\ lsOut = <<>>
    /\ IdleAuth /\ IdleName /\ IdleExport

\* res, err := client.Retrieve(options); if err != nil { panic(err) }
ListRetrieve ==
    /\ lsPc = "retrieve"
    /\ \/ /\ rawList' \in RawResponses
          /\ lsPc' = "template"
       \/ /\ rawList' = rawList
          /\ lsPc' = "panic"
    /\ UNCHANGED <<lsOptions, lsFormat, lsItems, lsOut, nonListVars>>

\* itemTemplate = template.Must(template.New("item").Parse(format)), or
\* defaultItemTemplate without --format; Must panics when Parse fails
ListTemplate ==
    /\ lsPc = "template"
    /\ lsPc' = IF lsFormat = "unparsable" THEN "panic" ELSE "copy"
    /\ UNCHANGED <<lsOptions, lsFormat, rawList, lsItems, lsOut, nonListVars>>

\* for _, item := range res.List { items = append(items, item) }
\* res.List is a map keyed by item id: range visits it in an unspecified order
ListCopy ==
    /\ lsPc = "copy"
    /\ lsItems' \in Orderings(rawList)
    /\ lsPc' = "sort"
    /\ UNCHANGED <<lsOptions, lsFormat, rawList, lsOut, nonListVars>>

\* sort.Sort(bySortID(items))
ListSort ==
    /\ lsPc = "sort"
    /\ lsItems' \in SortOutcomes(lsItems)
    /\ lsPc' = "print"
    /\ UNCHANGED <<lsOptions, lsFormat, rawList, lsOut, nonListVars>>

\* for _, item := range items { err := itemTemplate.Execute(os.Stdout, item) ... }
ListPrint ==
    /\ lsPc = "print"
    /\ IF Len(lsOut) < Len(lsItems)
         THEN \/ /\ lsOut' = Append(lsOut, lsItems[Len(lsOut) + 1])
                 /\ lsPc' = "print"
              \/ /\ lsOut' = lsOut
                 /\ lsPc' = "panic"
         ELSE /\ lsOut' = lsOut
              /\ lsPc' = "done"
    /\ UNCHANGED <<lsOptions, lsFormat, rawList, lsItems, nonListVars>>

NextList ==
    \/ ListRetrieve
    \/ ListTemplate
    \/ ListCopy
    \/ ListSort
    \/ ListPrint

SpecList == InitList /\ [][NextList]_vars

(***************************************************************************)
(* Claims about commandList                                                *)
(***************************************************************************)
\* position of the item with the given id in a sequence of items
PosOf(s, id) == CHOOSE i \in 1..Len(s) : s[i].id = id

IsOrderingOf(t, s) == t \in Orderings(s)

\* C5: the printed item sequence is a permutation of the response in
\* ascending sort_id order with a stable tie-break: a precedes b iff
\* a.sort_id < b.sort_id, or the sort_ids are equal and a came before b in
\* the raw response.
C5_StableAscending ==
    lsPc \in {"print", "done"} =>
       /\ IsOrderingOf(lsItems, rawList)
       /\ \A i, j \in 1..Len(lsItems) :
             i < j <=>
                \/ lsItems[i].sortId < lsItems[j].sortId
                \/ /\ lsItems[i].sortId = lsItems[j].sortId
                   /\ PosOf(rawList, lsItems[i].id) < PosOf(rawList, lsItems[j].id)

\* the part of C5 the code does guarantee: a permutation of the response in
\* which no item comes after one with a larger sort_id
C5_Ascending ==
    lsPc \in {"print", "done"} =>
       /\ IsOrderingOf(lsItems, rawList)
       /\ \A i, j \in 1..Len(lsItems) :
             lsItems[i].sortId < lsItems[j].sortId => i < j

\* a response with sort_ids 2 then 1 was printed as 1 then 2
C5_Reordered ==
    /\ lsPc = "done"
    /\ Len(rawList) = 2
    /\ rawList[1].sortId = 2
    /\ rawList[2].sortId = 1
    /\ lsOut = <<rawList[2], rawList[1]>>


(***************************************************************************)
(* commandSpotlight (cmd/pocket/main.go): the filename derived from a      *)
(* title.  A title is a sequence of Unicode code points.                   *)
(***************************************************************************)
\* const maxFilename = 127
maxFilename == 127
\* const maxTitle = maxFilename - len(`.webloc`)
maxTitle == maxFilename - Len(".webloc")

\* regexp.Compile(`[^a-zA-Z0-9'". _-|()[]`): the characters the negated class
\* lists, which ReplaceAllString keeps.  In the class, _-| is the range from
\* '_' (95) to '|' (124); the final ']' closes the class.
KeptByBadCharsNoRangeMutant(c) ==
    \/ c \in 97..122
    \/ c \in 65..90
    \/ c \in 48..57
    \/ c \in {39, 34, 46, 32}
    \/ c \in {95, 45, 124}
    \/ c \in {40, 41, 91, 93}

KeptByBadChars(c) ==
    \/ c \in 97..122               \* a-z
    \/ c \in 65..90                \* A-Z
    \/ c \in 48..57                \* 0-9
    \/ c \in {39, 34, 46, 32}      \* ' " . and the space
    \/ c \in 95..124               \* _-|
    \/ c \in {40, 41, 91}          \* ( ) [

\* regexp.Compile(`\s+`): \s is [\t\n\f\r ]
IsSpace(c) == c \in {9, 10, 12, 13, 32}

\* the class of leadingNoise `^[ \t_-]+` and trailingNoise `[ \t_-]+$`
IsNoise(c) == c \in {32, 9, 95, 45}

\* fname = badChars.ReplaceAllString(fname, "")
StripBadChars(t) == SelectSeq(t, KeptByBadChars)

\* fname = repeatSpace.ReplaceAllString(fname, " "): every maximal run of \s
\* becomes one space
CollapseSpaces(t) ==
    LET marked == [i \in 1..Len(t) |->
                      IF ~IsSpace(t[i]) THEN t[i]
                      ELSE IF i > 1 /\ IsSpace(t[i - 1]) THEN -1
                      ELSE 32]
    IN  SelectSeq(marked, LAMBDA c : c # -1)

\* fname = leadingNoise.ReplaceAllString(fname, ""): the run at the start goes
TrimLeading(t) ==
    LET rest == {i \in 1..Len(t) : ~IsNoise(t[i])}
    IN  IF rest = {} THEN <<>>
        ELSE SubSeq(t, CHOOSE i \in rest : \A j \in rest : i <= j, Len(t))

\* fname = trailingNoise.ReplaceAllString(fname, ""): the run at the end goes
TrimTrailingKeepsMutant(t) == t

TrimTrailing(t) ==
    LET rest == {i \in 1..Len(t) : ~IsNoise(t[i])}
    IN  IF rest = {} THEN <<>>
        ELSE SubSeq(t, 1, CHOOSE i \in rest : \A j \in rest : j <= i)

\* fnameRunes := []rune(fname); if len(fnameRunes) > maxTitle { fname = string(fnameRunes[0:maxTitle]) }
Truncate(t) == IF Len(t) > maxTitle THEN SubSeq(t, 1, maxTitle) ELSE t

\* the whole derivation of lines 289-297
SanitizedTitle(t) ==
    Truncate(TrimTrailing(TrimLeading(CollapseSpaces(StripBadChars(t)))))

\* the titles the derivation is applied to: a run of 'a' of length 0 or
\* maxTitle - 1 with a tail or a head of freely chosen characters, and every
\* single character of a wide range
TailChars == {97, 32, 9, 95, 45, 96, 93}
WideChars == (0..127) \cup {233, 8211, 20013}
Filler(n) == [i \in 1..n |-> 97]
Tails == UNION {[1..n -> TailChars] : n \in 0..MaxTail}
Titles ==
    {Filler(n) \o t : n \in {0, maxTitle - 1}, t \in Tails}
       \cup {t \o Filler(maxTitle - 1) : t \in Tails}
       \cup {<<c>> : c \in WideChars}

InitName ==
    /\ nmPc = "title"
    /\ nmTitle \in Titles
    /\ fname = <<>>
    /\ IdleAuth /\ IdleList /\ IdleExport

\* fname := item.Title()
NameTitle ==
    /\ nmPc = "title"
    /\ fname' = nmTitle
    /\ nmPc' = "badChars"
    /\ UNCHANGED <<nmTitle, nonNameVars>>

NameStrip ==
    /\ nmPc = "badChars"
    /\ fname' = StripBadChars(fname)
    /\ nmPc' = "repeatSpace"
    /\ UNCHANGED <<nmTitle, nonNameVars>>

NameCollapse ==
    /\ nmPc = "repeatSpace"
    /\ fname' = CollapseSpaces(fname)
    /\ nmPc' = "leadingNoise"
    /\ UNCHANGED <<nmTitle, nonNameVars>>

NameTrimLeading ==
    /\ nmPc = "leadingNoise"
    /\ fname' = TrimLeading(fname)
    /\ nmPc' = "trailingNoise"
    /\ UNCHANGED <<nmTitle, nonNameVars>>

NameTrimTrailing ==
    /\ nmPc = "trailingNoise"
    /\ fname' = TrimTrailing(fname)
    /\ nmPc' = "truncate"
    /\ UNCHANGED <<nmTitle, nonNameVars>>

NameTruncate ==
    /\ nmPc = "truncate"
    /\ fname' = Truncate(fname)
    /\ nmPc' = "done"
    /\ UNCHANGED <<nmTitle, nonNameVars>>

NextName ==
    \/ NameTitle
    \/ NameStrip
    \/ NameCollapse
    \/ NameTrimLeading
    \/ NameTrimTrailing
    \/ NameTruncate

SpecName == InitName /\ [][NextName]_vars

(***************************************************************************)
(* Claims about the filename derivation                                    *)
(***************************************************************************)
\* the allow-list as the specification words it: letters, digits, single and
\* double quote, space, period, underscore, hyphen, square brackets,
\* parentheses, pipe
InAllowList(c) ==
    \/ c \in 97..122
    \/ c \in 65..90
    \/ c \in 48..57
    \/ c \in {39, 34, 32, 46, 95, 45, 91, 93, 40, 41, 124}

\* C9: for every title the derived stem has at most maxTitle code points and
\* holds no character outside the allow-list; the derivation always ends,
\* with the empty stem when nothing allowed remains.
C9_StemAllowed ==
    nmPc = "done" =>
       /\ Len(fname) <= maxTitle
       /\ \A i \in 1..Len(fname) : InAllowList(fname[i])

\* the part of C9 that holds of the code: the length bound, and no character
\* in the stem that the badChars class does not keep
C9_StemBounded ==
    nmPc = "done" =>
       /\ Len(fname) <= maxTitle
       /\ \A i \in 1..Len(fname) : KeptByBadChars(fname[i])
       /\ (\A i \in 1..Len(nmTitle) : ~KeptByBadChars(nmTitle[i])) => fname = <<>>

\* a title longer than maxTitle was cut to maxTitle code points
C9_Truncated ==
    /\ nmPc = "done"
    /\ Len(nmTitle) > maxTitle
    /\ Len(fname) = maxTitle

\* C17: the strip step keeps, in order, exactly the characters of the title
\* that are on the allow-list and removes every other character.
C17_StripExact ==
    nmPc = "repeatSpace" => fname = SelectSeq(nmTitle, InAllowList)

\* no noise character at either end and no two whitespace characters in a row
NoNoiseAtStart(t) == t # <<>> => ~IsNoise(t[1])
NoNoiseAtEnd(t) == t # <<>> => ~IsNoise(t[Len(t)])
NoSpaceRun(t) == \A i \in 1..(Len(t) - 1) : ~(IsSpace(t[i]) /\ IsSpace(t[i + 1]))

\* C20: the final stem, after the truncation to maxTitle code points, never
\* begins or ends with a space, tab, underscore or hyphen and never holds two
\* whitespace characters in a row.
C20_NoNoiseAtEnds ==
    nmPc = "done" =>
       /\ NoNoiseAtStart(fname)
       /\ NoNoiseAtEnd(fname)
       /\ NoSpaceRun(fname)

\* C20 amended: the stem before the truncation has no noise at either end;
\* the final stem never begins with noise and never holds two whitespace
\* characters in a row, and it ends with noise only where the truncation cut
\* a trimmed stem longer than maxTitle right after a space or an underscore.
C20_NoNoiseUnlessCut ==
    /\ nmPc = "truncate" =>
          /\ NoNoiseAtStart(fname)
          /\ NoNoiseAtEnd(fname)
          /\ NoSpaceRun(fname)
    /\ nmPc = "done" =>
          /\ NoNoiseAtStart(fname)
          /\ NoSpaceRun(fname)
          /\ ~NoNoiseAtEnd(fname) =>
                /\ Len(fname) = maxTitle
                /\ Len(StripBadChars(nmTitle)) > maxTitle
                /\ fname[Len(fname)] \in {32, 95}

\* C20 witness: a title longer than maxTitle was cut right after a space.
C20_Witness ==
    /\ nmPc = "done"
    /\ Len(nmTitle) > maxTitle
    /\ Len(fname) = maxTitle
    /\ fname[maxTitle] = 32
    /\ fname[1] = 97


(***************************************************************************)
(* commandSpotlight: reset the index directory, write and convert one      *)
(* descriptor per item, re-index.  variant = "title" is cmd/pocket/main.go *)
(* (sanitized title, .webloc, explicit Close); variant = "hash" is the     *)
(* earlier file (SHA-256 of the URL, .webbookmark, deferred Close).        *)
(***************************************************************************)
\* the items a response is made of; "a" and "a-" derive the same stem
ItemKinds ==
    { [title |-> <<97>>,     url |-> "http://a", sortId |-> 1],
      [title |-> <<97, 45>>, url |-> "http://b", sortId |-> 2],
      [title |-> <<98>>,     url |-> "http://a", sortId |-> 2],
      [title |-> <<98>>,     url |-> "http://b", sortId |-> 1] }

ExportItemIds == 1..MaxExportItems

\* the retrieved items, item ids pairwise different, in the order the range
\* loop visits them
ItemLists ==
    UNION {
      {l \in [1..n -> [id : ExportItemIds, kind : ItemKinds]] :
          \A i, j \in 1..n : l[i].id = l[j].id => i = j}
      : n \in 0..MaxExportItems}

\* h := sha256.New(); h.Write([]byte(item.URL())); fmt.Sprintf("%x", h.Sum(nil)):
\* the digest stands for the URL it was computed from
Sha256Hex(u) == <<"sha256", u>>

\* {{- .URL | html -}} : the escaped text of a value
HtmlEscape(u) == [enc |-> "html", val |-> u]
\* plutil -convert binary1: the binary property list holds the decoded string
PlistString(x) == IF x.enc = "html" THEN [enc |-> "plain", val |-> x.val] ELSE x
\* what a file holds where nothing was written
NoUrl == [enc |-> "none", val |-> ""]
NoTitle == [enc |-> "none", val |-> <<>>]
OldUrl(u) == [enc |-> "plain", val |-> u]
OldTitle == [enc |-> "plain", val |-> <<111>>]

\* main.go: fpath := filepath.Join(indexDir, fmt.Sprintf("%s.webloc", fname))
TitleFileNameDedupMutant(item) ==
    [stem |-> SanitizedTitle(item.kind.title) \o <<48 + item.id>>, ext |-> ".webloc"]

TitleFileName(item) ==
    [stem |-> SanitizedTitle(item.kind.title), ext |-> ".webloc"]

\* the variant: fpath := filepath.Join(metadatadir, fmt.Sprintf("%x.webbookmark", h.Sum(nil)))
HashFileNameConstantMutant(item) ==
    [stem |-> Sha256Hex(""), ext |-> ".webbookmark"]

HashFileName(item) ==
    [stem |-> Sha256Hex(item.kind.url), ext |-> ".webbookmark"]

FileName(v, item) == IF v = "title" THEN TitleFileName(item) ELSE HashFileName(item)

\* files an earlier run or anything else may have left in the directory
StaleFiles(v) ==
    { [name |-> [stem |-> IF v = "title" THEN <<106>> ELSE <<"junk", "">>,
                 ext |-> ".txt"],
       form |-> "other", url |-> OldUrl("old"), title |-> OldTitle,
       open |-> FALSE, stale |-> TRUE, item |-> 0],
      [name |-> FileName(v, [id |-> 0, kind |->
                   [title |-> <<97>>, url |-> "http://a", sortId |-> 1]]),
       form |-> "partial", url |-> OldUrl("old"), title |-> OldTitle, open |-> FALSE,
       stale |-> TRUE, item |-> 0],
      [name |-> FileName(v, [id |-> 0, kind |->
                   [title |-> <<99>>, url |-> "http://c", sortId |-> 1]]),
       form |-> "binary1", url |-> OldUrl("http://c"), title |-> OldTitle, open |-> FALSE,
       stale |-> TRUE, item |-> 0] }

\* os.Create(fpath): the file exists, empty and open, whatever was there
CreateFile(d, name, id) ==
    {f \in d : f.name # name} \cup
       {[name |-> name, form |-> "empty", url |-> NoUrl, title |-> NoTitle,
         open |-> TRUE, stale |-> FALSE, item |-> id]}

\* the file of the directory with the given name
FileAt(d, name) == CHOOSE f \in d : f.name = name

\* the directory with the file of new's name replaced by new
WithFile(d, new) == {f \in d : f.name # new.name} \cup {new}

CurItem == exItems[idx]
CurName == FileName(variant, CurItem)

\* where the range loop goes with index i: the next item, or mdimport
LoopPcPerItemMutant(i) == IF i = 1 /\ Len(exItems) >= 1 THEN "create" ELSE "reindex"

LoopPc(i) == IF i <= Len(exItems) THEN "create" ELSE "reindex"

Fail(step) == IF failure = NoFailure THEN [step |-> step, at |-> idx] ELSE failure

InitExport ==
    /\ variant \in {"title", "hash"}
    /\ exPc = "retrieve"
    /\ exItems = <<>>
    /\ idx = 0
    /\ dir \in SUBSET StaleFiles(variant)
    /\ dirExists \in (IF dir = {} THEN BOOLEAN ELSE {TRUE})
    /\ indexerCalls = 0
    /\ failure = NoFailure
    /\ resetDone = FALSE
    /\ priorDir = dir
    /\ IdleAuth /\ IdleList /\ IdleName

\* res, err := client.Retrieve(options); if err != nil { ...; os.Exit(1) }
ExRetrieve ==
    /\ exPc = "retrieve"
    /\ \/ /\ exItems' \in ItemLists
          /\ exPc' = "indexDir"
          /\ failure' = failure
       \/ /\ exItems' = exItems
          /\ exPc' = "exit1"
          /\ failure' = Fail("retrieve")
    /\ UNCHANGED <<variant, idx, dirExists, dir, indexerCalls, resetDone,
                   priorDir, nonExportVars>>

\* the index directory: --indexdir, or $HOME/Library/Caches/Metadata/go-pocket
\* ("$HOME not set": os.Exit(1))
ExIndexDir ==
    /\ exPc = "indexDir"
    /\ \/ /\ exPc' = "removeAll"
          /\ failure' = failure
       \/ /\ exPc' = "exit1"
          /\ failure' = Fail("home")
    /\ UNCHANGED <<variant, exItems, idx, dirExists, dir, indexerCalls,
                   resetDone, priorDir, nonExportVars>>

\* err = os.RemoveAll(indexDir); an error may come after part was removed
ExRemoveAllKeepsMutant ==
    /\ exPc = "removeAll"
    /\ \/ /\ dir' = dir
          /\ dirExists' = dirExists
          /\ exPc' = "mkdirAll"
          /\ failure' = failure
       \/ /\ dir' \in SUBSET dir
          /\ dirExists' = dirExists
          /\ exPc' = "exit1"
          /\ failure' = Fail("removeAll")
    /\ UNCHANGED <<variant, exItems, idx, indexerCalls, resetDone, priorDir,
                   nonExportVars>>

ExRemoveAll ==
    /\ exPc = "removeAll"
    /\ \/ /\ dir' = {}
          /\ dirExists' = FALSE
          /\ exPc' = "mkdirAll"
          /\ failure' = failure
       \/ /\ dir' \in SUBSET dir
          /\ dirExists' = dirExists
          /\ exPc' = "exit1"
          /\ failure' = Fail("removeAll")
    /\ UNCHANGED <<variant, exItems, idx, indexerCalls, resetDone, priorDir,
                   nonExportVars>>

\* err = os.MkdirAll(indexDir, 0700); then the range loop starts
ExMkdirAll ==
    /\ exPc = "mkdirAll"
    /\ \/ /\ dirExists' = TRUE
          /\ resetDone' = TRUE
          /\ idx' = 1
          /\ exPc' = LoopPc(1)
          /\ failure' = failure
       \/ /\ dirExists' = dirExists
          /\ resetDone' = resetDone
          /\ idx' = idx
          /\ exPc' = "exit1"
          /\ failure' = Fail("mkdirAll")
    /\ UNCHANGED <<variant, exItems, dir, indexerCalls, priorDir, nonExportVars>>

\* fout, err := os.Create(fpath)
ExCreate ==
    /\ exPc = "create"
    /\ \/ /\ dir' = CreateFile(dir, CurName, CurItem.id)
          /\ exPc' = "write"
          /\ failure' = failure
       \/ /\ dir' = dir
          /\ exPc' = "exit1"
          /\ failure' = Fail("create")
    /\ UNCHANGED <<variant, exItems, idx, dirExists, indexerCalls, resetDone,
                   priorDir, nonExportVars>>

\* err = itemTemplate.Execute(fout, item); main.go closes the file on an error
\* and after the write, the variant defers the Close to the function's return
ExWrite ==
    /\ exPc = "write"
    /\ \/ /\ dir' = WithFile(dir, [FileAt(dir, CurName) EXCEPT !.form = "xml",
                                 !.url = HtmlEscape(CurItem.kind.url),
                                 !.title = IF variant = "hash"
                                             THEN HtmlEscape(CurItem.kind.title)
                                             ELSE NoTitle])
          /\ exPc' = IF variant = "title" THEN "close" ELSE "convert"
          /\ failure' = failure
       \/ /\ dir' = WithFile(dir, [FileAt(dir, CurName) EXCEPT !.form = "partial",
                                 !.open = (variant = "hash")])
          /\ exPc' = "exit1"
          /\ failure' = Fail("write")
    /\ UNCHANGED <<variant, exItems, idx, dirExists, indexerCalls, resetDone,
                   priorDir, nonExportVars>>

\* main.go: err = fout.Close(); if err != nil { ...; os.Exit(1) }
ExClose ==
    /\ exPc = "close"
    /\ variant = "title"
    /\ dir' = WithFile(dir, [FileAt(dir, CurName) EXCEPT !.open = FALSE])
    /\ \/ /\ exPc' = "convert"
          /\ failure' = failure
       \/ /\ exPc' = "exit1"
          /\ failure' = Fail("close")
    /\ UNCHANGED <<variant, exItems, idx, dirExists, indexerCalls, resetDone,
                   priorDir, nonExportVars>>

\* exec.Command("/usr/bin/plutil", "-convert", "binary1", fpath).CombinedOutput()
ExConvert ==
    /\ exPc = "convert"
    /\ \/ /\ dir' = WithFile(dir, [FileAt(dir, CurName) EXCEPT !.form = "binary1",
                                 !.url = PlistString(@),
                                 !.title = PlistString(@)])
          /\ idx' = idx + 1
          /\ exPc' = LoopPc(idx + 1)
          /\ failure' = failure
       \/ /\ dir' = dir
          /\ idx' = idx
          /\ exPc' = "exit1"
          /\ failure' = Fail("convert")
    /\ UNCHANGED <<variant, exItems, dirExists, indexerCalls, resetDone,
                   priorDir, nonExportVars>>

\* exec.Command("/usr/bin/mdimport", indexDir).CombinedOutput()
ExReindex ==
    /\ exPc = "reindex"
    /\ indexerCalls' = indexerCalls + 1
    /\ \/ /\ exPc' = IF variant = "title" THEN "exit0" ELSE "deferredClose"
          /\ failure' = failure
       \/ /\ exPc' = "exit1"
          /\ failure' = Fail("reindex")
    /\ UNCHANGED <<variant, exItems, idx, dirExists, dir, resetDone, priorDir,
                   nonExportVars>>

\* the variant: defer fout.Close() of every item runs when commandSpotlight
\* returns; the error a Close returns is dropped
ExDeferredClose ==
    /\ exPc = "deferredClose"
    /\ variant = "hash"
    /\ dir' = {[f EXCEPT !.open = FALSE] : f \in dir}
    /\ \/ failure' = failure
       \/ /\ exItems # <<>>
          /\ failure' = Fail("close")
    /\ exPc' = "exit0"
    /\ UNCHANGED <<variant, exItems, idx, dirExists, indexerCalls, resetDone,
                   priorDir, nonExportVars>>

NextExport ==
    \/ ExRetrieve
    \/ ExIndexDir
    \/ ExRemoveAll
    \/ ExMkdirAll
    \/ ExCreate
    \/ ExWrite
    \/ ExClose
    \/ ExConvert
    \/ ExReindex
    \/ ExDeferredClose

SpecExport == InitExport /\ [][NextExport]_vars


(***************************************************************************)
(* Claims about commandSpotlight                                           *)
(***************************************************************************)
\* the descriptor a finished export holds for an item
IsDescriptorOf(f, item) ==
    /\ f.name = FileName(variant, item)
    /\ f.form = "binary1"
    /\ f.url = [enc |-> "plain", val |-> item.kind.url]

ItemIndexes == 1..Len(exItems)

\* C6: no descriptor is written before the directory was reset; from the
\* reset on no file from before the run is in the directory; after a
\* successful export every file is the descriptor of an item of this run.
C6_ResetBeforeWrite ==
    /\ (\E f \in dir : ~f.stale) => resetDone
    /\ resetDone => (dirExists /\ \A f \in dir : ~f.stale)
    /\ exPc = "exit0" =>
          \A f \in dir : \E i \in ItemIndexes : IsDescriptorOf(f, exItems[i])

\* C6 witness: the directory held a half-written descriptor of an earlier
\* run under the name an item of this run gets, and the export succeeded.
C6_Witness ==
    /\ exPc = "exit0"
    /\ exItems # <<>>
    /\ \E f \in priorDir :
          /\ f.form = "partial"
          /\ \E i \in ItemIndexes : f.name = FileName(variant, exItems[i])
    /\ \E f \in priorDir : f.form = "other"

\* C7: the re-index command is invoked at most once, and only when every
\* item has been processed and every item's descriptor is there, written
\* and converted; a successful export has invoked it exactly once.
C7_ReindexLast ==
    /\ indexerCalls <= 1
    /\ indexerCalls = 1 =>
          /\ idx = Len(exItems) + 1
          /\ \A f \in dir : f.form = "binary1"
          /\ \A i \in ItemIndexes : \E f \in dir :
                /\ f.name = FileName(variant, exItems[i])
                /\ f.form = "binary1"
    /\ exPc \in {"create", "write", "close", "convert"} => indexerCalls = 0
    /\ exPc = "exit0" => indexerCalls = 1

\* C7 witness: an export of two items ended successfully after one re-index.
C7_Witness ==
    /\ exPc = "exit0"
    /\ Len(exItems) = 2
    /\ indexerCalls = 1

\* C8: a step that returns an error ends the command with a non-zero exit
\* at that step: no later item is processed, and unless the failing step is
\* the re-index itself the re-index command has not been invoked.
C8_HardFailure ==
    failure # NoFailure =>
       /\ exPc = "exit1"
       /\ idx = failure.at
       /\ failure.step # "reindex" => indexerCalls = 0

\* what holds of both files: every failure except that of the variant's
\* deferred Close is a hard failure (cmd/pocket/main.go checks its Close)
C8_ExceptDeferredClose ==
    (variant = "title" \/ failure.step # "close") => C8_HardFailure

\* C10 as claimed: under the hash policy a successful export leaves as many
\* descriptor files as there are items, each item's file named by the hash
\* of its URL and holding that URL.
C10_OnePerItem ==
    (variant = "hash" /\ exPc = "exit0") =>
       /\ Cardinality(dir) = Len(exItems)
       /\ \A i \in ItemIndexes : \E f \in dir : IsDescriptorOf(f, exItems[i])

\* C10 amended: under the hash policy a successful export leaves one
\* descriptor file per distinct URL of the items (as many files as items
\* when the URLs are pairwise different), each named by the hash of the URL
\* it holds, and every item's URL has its file.
C10_OnePerUrl ==
    (variant = "hash" /\ exPc = "exit0") =>
       /\ Cardinality(dir) = Cardinality({exItems[i].kind.url : i \in ItemIndexes})
       /\ \A i \in ItemIndexes : \E f \in dir : IsDescriptorOf(f, exItems[i])
       /\ \A f \in dir : \E i \in ItemIndexes : IsDescriptorOf(f, exItems[i])
       /\ \A f \in dir : f.name.stem = Sha256Hex(f.url.val)

\* C10 witness: two items with different URLs were exported into two files.
C10_Witness ==
    /\ variant = "hash"
    /\ exPc = "exit0"
    /\ Len(exItems) = 2
    /\ exItems[1].kind.url # exItems[2].kind.url
    /\ Cardinality(dir) = 2

\* C14: the descriptors are written in ascending sort_id order of the
\* retrieved items: the item whose descriptor is being written has a sort_id
\* no smaller than that of every item written before it.
C14_AscendingWrites ==
    exPc \in {"create", "write", "close", "convert"} =>
       \A i \in 1..(idx - 1) :
          exItems[i].kind.sortId <= CurItem.kind.sortId

\* C15: the converter is invoked on a descriptor that is completely written
\* and closed, each item's conversion is over before the next descriptor is
\* created, and no converted descriptor was open for writing when converted.
C15_ClosedBeforeConvert ==
    /\ exPc = "convert" =>
          /\ FileAt(dir, CurName).form = "xml"
          /\ ~FileAt(dir, CurName).open
    /\ exPc = "create" =>
          \A i \in 1..(idx - 1) :
             /\ FileAt(dir, FileName(variant, exItems[i])).form = "binary1"
             /\ ~FileAt(dir, FileName(variant, exItems[i])).open
    /\ \A f \in dir : (f.form = "binary1" /\ ~f.stale) => ~f.open

\* the last item of the visit order that is written under the name
LastNamed(name) ==
    CHOOSE i \in ItemIndexes :
       /\ TitleFileName(exItems[i]) = name
       /\ \A j \in ItemIndexes : TitleFileName(exItems[j]) = name => j <= i

\* C16: under the sanitized-title policy a successful export leaves as many
\* descriptors as there are distinct sanitized titles, and the file of a
\* title shared by several items is the descriptor of the item processed
\* last, holding that item's URL.
C16_LaterOverwrites ==
    (variant = "title" /\ exPc = "exit0") =>
       /\ failure = NoFailure
       /\ Cardinality(dir) =
             Cardinality({SanitizedTitle(exItems[i].kind.title) : i \in ItemIndexes})
       /\ \A f \in dir :
             /\ \E i \in ItemIndexes : TitleFileName(exItems[i]) = f.name
             /\ f.item = exItems[LastNamed(f.name)].id
             /\ f.url = PlistString(HtmlEscape(exItems[LastNamed(f.name)].kind.url))
             /\ f.form = "binary1"

\* C16 witness: two items with the same sanitized title and different URLs
\* were exported; one file is left and holds the URL of the second.
C16_Witness ==
    /\ variant = "title"
    /\ exPc = "exit0"
    /\ Len(exItems) = 2
    /\ exItems[1].kind.title # exItems[2].kind.title
    /\ TitleFileName(exItems[1]) = TitleFileName(exItems[2])
    /\ exItems[1].kind.url # exItems[2].kind.url
    /\ Cardinality(dir) = 1
    /\ \A f \in dir : f.url.val = exItems[2].kind.url


Init == InitAuth
Next == NextAuth
Spec == Init /\ [][Next]_vars

=============================================================================
